---------------------------- MODULE Spec2Model ----------------------------
(***************************************************************************)
(* A model of the notebook 01_floating_point.ipynb: a Jupyter kernel that  *)
(* runs the notebook's code cells in order, over IEEE 754 double precision *)
(* arithmetic (round to nearest, ties to even) and, for the statements     *)
(* made "in exact arithmetic", over the rationals.                         *)
(***************************************************************************)
EXTENDS Integers, Sequences, FiniteSets, TLC

VARIABLES pc, ns, out, owner, rd, shift

vars == <<pc, ns, out, owner, rd, shift>>

(***************************************************************************)
(* Arbitrary-precision naturals (Python's int, and the integers a double's *)
(* mantissa and exact intermediate results are made of): little-endian     *)
(* sequences of limbs in 0..Base-1 with no leading zero limb; <<>> is 0.   *)
(***************************************************************************)
Max(i, j) == IF i >= j THEN i ELSE j

Min(i, j) == IF i <= j THEN i ELSE j

LimbBits == 15

Base == 2^LimbBits

Limb(a, i) == IF i <= Len(a) THEN a[i] ELSE 0

\* a without its leading zero limbs
BNorm(a) ==
  LET nz == {i \in 1..Len(a) : a[i] # 0}
  IN  IF nz = {} THEN <<>>
      ELSE SubSeq(a, 1, CHOOSE i \in nz : \A j \in nz : j <= i)

BFromInt(k) ==
  IF k = 0 THEN <<>>
  ELSE IF k < Base THEN <<k>>
  ELSE IF k < Base * Base THEN <<k % Base, k \div Base>>
  ELSE <<k % Base, (k \div Base) % Base, k \div (Base * Base)>>

\* limbs lo..hi of a + b + c and the carry out of limb hi
RECURSIVE BAddR(_, _, _, _, _)
BAddR(a, b, lo, hi, c) ==
  IF lo > hi THEN <<<<>>, c>>
  ELSE IF lo = hi
       THEN LET s == Limb(a, lo) + Limb(b, lo) + c
            IN  <<<<s % Base>>, s \div Base>>
  ELSE LET mid == (lo + hi) \div 2
           l == BAddR(a, b, lo, mid, c)
           h == BAddR(a, b, mid + 1, hi, l[2])
       IN  <<l[1] \o h[1], h[2]>>

\* the limbs r[1] with the carry r[2] as one more limb, when there is one
BWithCarry(r) == IF r[2] = 0 THEN r[1] ELSE r[1] \o <<r[2]>>

BAdd(a, b) == BWithCarry(BAddR(a, b, 1, Max(Len(a), Len(b)), 0))

\* limbs lo..hi of a - b - c and the borrow out of limb hi
RECURSIVE BSubR(_, _, _, _, _)
BSubR(a, b, lo, hi, c) ==
  IF lo > hi THEN <<<<>>, c>>
  ELSE IF lo = hi
       THEN LET d == Limb(a, lo) - Limb(b, lo) - c
            IN  <<<<d % Base>>, IF d < 0 THEN 1 ELSE 0>>
  ELSE LET mid == (lo + hi) \div 2
           l == BSubR(a, b, lo, mid, c)
           h == BSubR(a, b, mid + 1, hi, l[2])
       IN  <<l[1] \o h[1], h[2]>>

\* a - b for a >= b
BSub(a, b) == BNorm(BSubR(a, b, 1, Len(a), 0)[1])

\* -1, 0 or 1 as a < b, a = b or a > b
BCmp(a, b) ==
  LET df == {i \in 1..Len(a) : a[i] # Limb(b, i)}
      top == CHOOSE i \in df : \A j \in df : j <= i
  IN  IF Len(a) < Len(b) THEN -1
      ELSE IF Len(a) > Len(b) THEN 1
      ELSE IF df = {} THEN 0
      ELSE IF a[top] < b[top] THEN -1 ELSE 1

\* limbs lo..hi of a * k + c and the carry out of limb hi
RECURSIVE BMulSmallR(_, _, _, _, _)
BMulSmallR(a, k, lo, hi, c) ==
  IF lo > hi THEN <<<<>>, c>>
  ELSE IF lo = hi
       THEN LET p == a[lo] * k + c
            IN  <<<<p % Base>>, p \div Base>>
  ELSE LET mid == (lo + hi) \div 2
           l == BMulSmallR(a, k, lo, mid, c)
           h == BMulSmallR(a, k, mid + 1, hi, l[2])
       IN  <<l[1] \o h[1], h[2]>>

\* a * k for 0 <= k < Base
BMulSmall(a, k) ==
  IF k = 0 THEN <<>> ELSE BWithCarry(BMulSmallR(a, k, 1, Len(a), 0))

\* a * Base^j
BShiftLimbs(a, j) ==
  IF a = <<>> THEN <<>> ELSE [i \in 1..j |-> 0] \o a

\* a * (limbs lo..hi of b, as a number)
RECURSIVE BMulR(_, _, _, _)
BMulR(a, b, lo, hi) ==
  IF lo > hi THEN <<>>
  ELSE IF lo = hi THEN BMulSmall(a, b[lo])
  ELSE LET mid == (lo + hi) \div 2
       IN  BAdd(BMulR(a, b, lo, mid),
                BShiftLimbs(BMulR(a, b, mid + 1, hi), mid + 1 - lo))

BMul(a, b) == IF a = <<>> THEN <<>> ELSE BMulR(a, b, 1, Len(b))

\* limbs lo..hi of (r * Base^hi + a's limbs 1..hi) div d, and what is left
\* over after limb lo
RECURSIVE BDivSmallR(_, _, _, _, _)
BDivSmallR(a, d, lo, hi, r) ==
  IF lo > hi THEN <<<<>>, r>>
  ELSE IF lo = hi
       THEN LET cur == r * Base + a[lo]
            IN  <<<<cur \div d>>, cur % d>>
  ELSE LET mid == (lo + hi) \div 2
           h == BDivSmallR(a, d, mid + 1, hi, r)
           l == BDivSmallR(a, d, lo, mid, h[2])
       IN  <<l[1] \o h[1], l[2]>>

\* <<a div d, a mod d>> for 0 < d <= Base
BQuotRem(res) == <<BNorm(res[1]), res[2]>>

BDivSmall(a, d) == BQuotRem(BDivSmallR(a, d, 1, Len(a), 0))

\* a * 2^k
BShl(a, k) == BShiftLimbs(BMulSmall(a, 2^(k % LimbBits)), k \div LimbBits)

\* a div 2^k
BShr(a, k) ==
  LET j == k \div LimbBits
  IN  IF j >= Len(a) THEN <<>>
      ELSE BDivSmall(SubSeq(a, j + 1, Len(a)), 2^(k % LimbBits))[1]

RECURSIVE IntBitLen(_)
IntBitLen(k) == IF k = 0 THEN 0 ELSE 1 + IntBitLen(k \div 2)

\* the number of binary digits of a
BBitLen(a) ==
  IF a = <<>> THEN 0 ELSE LimbBits * (Len(a) - 1) + IntBitLen(a[Len(a)])

BPow2(k) == BShl(<<1>>, k)

BIsOdd(a) == a # <<>> /\ a[1] % 2 = 1

\* long division of r by d, binary digits hi down to lo of the quotient:
\* <<those digits as a number, what is left of r>>
\* one digit: t is d * 2^lo
BDivStep(r, t, lo) ==
  IF BCmp(r, t) >= 0 THEN <<BPow2(lo), BSub(r, t)>> ELSE <<<<>>, r>>

RECURSIVE BDivR(_, _, _, _)
BDivR(r, d, lo, hi) ==
  IF lo = hi THEN BDivStep(r, BShl(d, lo), lo)
  ELSE LET mid == (lo + hi) \div 2
           h == BDivR(r, d, mid + 1, hi)
           l == BDivR(h[2], d, lo, mid)
       IN  <<BAdd(h[1], l[1]), l[2]>>

\* <<a div d, a mod d>> for d > 0
BDivMod(a, d) ==
  IF BCmp(a, d) < 0 THEN <<<<>>, a>>
  ELSE BDivR(a, d, 0, BBitLen(a) - BBitLen(d))

RECURSIVE BPow10(_)
BPow10(k) ==
  IF k = 0 THEN <<1>>
  ELSE IF k = 1 THEN <<10>>
  ELSE BMul(BPow10(k \div 2), BPow10(k - k \div 2))

\* the natural number written with the decimal digits ds
RECURSIVE BFromDigits(_)
BFromDigits(ds) ==
  IF ds = <<>> THEN <<>>
  ELSE IF Len(ds) = 1 THEN BFromInt(ds[1])
  ELSE LET h == Len(ds) \div 2
       IN  BAdd(BMul(BFromDigits(SubSeq(ds, 1, h)), BPow10(Len(ds) - h)),
                BFromDigits(SubSeq(ds, h + 1, Len(ds))))

(***************************************************************************)
(* IEEE 754 double precision (the notebook's markdown, "Floating point     *)
(* numbers specifics"): a finite double is (-1)^s * m * 2^e with m a       *)
(* natural number of at most MantDig binary digits; a normal one has       *)
(* exactly MantDig digits, which makes m * 2^e = 2^(c-Bias) * (1+f) with   *)
(* c = e + MantDig - 1 + Bias and f = m / 2^(MantDig-1) - 1.  Zero is      *)
(* m = <<>> with e = 0; subnormals have e = EMin and fewer digits.         *)
(***************************************************************************)
MantDig == 53

Bias == 1023

\* the largest characteristic of a finite number; MaxChar + 1 is reserved
MaxChar == 2046

\* the exponent of the last binary digit of the smallest normal numbers
EMin == 1 - Bias - (MantDig - 1)

Fin(s, m, e) ==
  IF m = <<>> THEN [k |-> "fin", s |-> s, m |-> <<>>, e |-> 0]
  ELSE [k |-> "fin", s |-> s, m |-> m, e |-> e]

Inf(s) == [k |-> "inf", s |-> s, m |-> <<>>, e |-> 0]

NaN == [k |-> "nan", s |-> 0, m |-> <<>>, e |-> 0]

(***************************************************************************)
(* Rounding to nearest, ties to even.  Round(s, mm, e, sticky) is the      *)
(* double nearest to (-1)^s * (mm + t) * 2^e, where 0 <= t < 1 and t > 0   *)
(* iff sticky (then mm has more than MantDig digits).  e1 is the exponent  *)
(* of the last digit kept, q the digits kept, c the comparison of the      *)
(* digits dropped with half a unit of the last digit kept.                 *)
(***************************************************************************)
RoundPack(s, m, e) ==
  IF m # <<>> /\ BBitLen(m) + e > MaxChar - Bias + 1 THEN Inf(s)
  ELSE Fin(s, m, e)

RoundCarry(s, q1, e1) ==
  RoundPack(s,
            IF BBitLen(q1) > MantDig THEN BShr(q1, 1) ELSE q1,
            IF BBitLen(q1) > MantDig THEN e1 + 1 ELSE e1)

RoundUp(s, q, c, sticky, e1) ==
  RoundCarry(s,
             IF c > 0 \/ (c = 0 /\ (sticky \/ BIsOdd(q)))
             THEN BAdd(q, <<1>>) ELSE q,
             e1)

RoundShift(s, mm, sticky, e1, sh, q) ==
  RoundUp(s, q, BCmp(BSub(mm, BShl(q, sh)), BPow2(sh - 1)), sticky, e1)

RoundTo(s, mm, e, sticky, e1) ==
  IF e1 <= e THEN RoundPack(s, BShl(mm, e - e1), e1)
  ELSE RoundShift(s, mm, sticky, e1, e1 - e, BShr(mm, e1 - e))

Round(s, mm, e, sticky) ==
  RoundTo(s, mm, e, sticky, Max(e + BBitLen(mm) - MantDig, EMin))

FNeg(a) == [a EXCEPT !.s = 1 - a.s]

FAbs(a) == [a EXCEPT !.s = 0]

FIsZero(a) == a.k = "fin" /\ a.m = <<>>

(***************************************************************************)
(* The exact result of an operation on finite operands, as the arguments   *)
(* of Round; the operation's result is its rounding.                       *)
(***************************************************************************)
Exact(s, mm, e, sticky) == [s |-> s, mm |-> mm, e |-> e, sticky |-> sticky]

\* a's exponent, or b's when a is zero
ExpOr(a, b) == IF a.m = <<>> THEN b.e ELSE a.e

SubAligned(sa, sb, x, y, e, c) ==
  IF c = 0 THEN Exact(0, <<>>, e, FALSE)
  ELSE IF c > 0 THEN Exact(sa, BSub(x, y), e, FALSE)
  ELSE Exact(sb, BSub(y, x), e, FALSE)

\* x * 2^e and y * 2^e are the magnitudes of the operands
AddAligned(sa, sb, x, y, e) ==
  IF sa = sb THEN Exact(sa, BAdd(x, y), e, FALSE)
  ELSE SubAligned(sa, sb, x, y, e, BCmp(x, y))

AddAt(a, b, e) ==
  AddAligned(a.s, b.s, BShl(a.m, ExpOr(a, b) - e), BShl(b.m, ExpOr(b, a) - e), e)

AddExact(a, b) == AddAt(a, b, Min(ExpOr(a, b), ExpOr(b, a)))

MulExact(a, b) == Exact((a.s + b.s) % 2, BMul(a.m, b.m), a.e + b.e, FALSE)

DivQR(s, qr, e) == Exact(s, qr[1], e, qr[2] # <<>>)

DivUp(a, b, up) ==
  DivQR((a.s + b.s) % 2, BDivMod(BShl(a.m, up), b.m), a.e - up - b.e)

\* the quotient to MantDig + 2 digits or more, and whether it is inexact
DivExact(a, b) == DivUp(a, b, Max(0, MantDig + 2 + BBitLen(b.m) - BBitLen(a.m)))

RoundExact(x) == Round(x.s, x.mm, x.e, x.sticky)

\* the result when an operand is an infinity or a NaN, or a divisor zero
Special(op, a, b) ==
  IF a.k = "nan" \/ b.k = "nan" THEN NaN
  ELSE IF op = "+" THEN
    (IF a.k = "inf" /\ b.k = "inf" /\ a.s # b.s THEN NaN
     ELSE IF a.k = "inf" THEN a ELSE b)
  ELSE IF op = "*" THEN
    (IF FIsZero(a) \/ FIsZero(b) THEN NaN ELSE Inf((a.s + b.s) % 2))
  ELSE IF a.k = "inf" /\ b.k = "inf" THEN NaN
  ELSE IF a.k = "inf" THEN Inf((a.s + b.s) % 2)
  ELSE IF b.k = "inf" THEN Fin((a.s + b.s) % 2, <<>>, 0)
  ELSE IF FIsZero(a) THEN NaN
  ELSE Inf((a.s + b.s) % 2)

\* a op b for op in "+", "*", "/", correctly rounded
FArith(op, a, b) ==
  IF a.k # "fin" \/ b.k # "fin" \/ (op = "/" /\ b.m = <<>>)
  THEN Special(op, a, b)
  ELSE RoundExact(CASE op = "+" -> AddExact(a, b)
                    [] op = "*" -> MulExact(a, b)
                    [] op = "/" -> DivExact(a, b))

FAdd(a, b) == FArith("+", a, b)

FSub(a, b) == FArith("+", a, FNeg(b))

FMul(a, b) == FArith("*", a, b)

FDiv(a, b) == FArith("/", a, b)

MagCmpAt(a, b, e) ==
  BCmp(BShl(a.m, ExpOr(a, b) - e), BShl(b.m, ExpOr(b, a) - e))

\* the comparison of |a| with |b|
MagCmp(a, b) == MagCmpAt(a, b, Min(ExpOr(a, b), ExpOr(b, a)))

\* -1, 0, 1 as a < b, a = b, a > b, for finite a and b
FCmp(a, b) ==
  IF FIsZero(a) /\ FIsZero(b) THEN 0
  ELSE IF a.s = b.s THEN (IF a.s = 1 THEN -MagCmp(a, b) ELSE MagCmp(a, b))
  ELSE IF FIsZero(a) THEN (IF b.s = 1 THEN 1 ELSE -1)
  ELSE IF a.s = 1 THEN -1 ELSE 1

\* the double nearest to the natural number mm (float(mm))
FFromBig(mm) == Round(0, mm, 0, FALSE)

\* the double 2^k
FPow2(k) == Round(0, <<1>>, k, FALSE)

\* the double nearest to num / den for naturals num and den > 0
FRatio(s, num, den) == FArith("/", Fin(s, num, 0), Fin(0, den, 0))

\* the double a decimal literal ds1 ds2 ... dsn * 10^p denotes (correctly
\* rounded, as Python reads a literal and as repr's output reads back)
FFromDecimal(ds, p) ==
  FRatio(0, BMul(BFromDigits(ds), BPow10(Max(p, 0))), BPow10(Max(-p, 0)))

(***************************************************************************)
(* print(a) for a positive finite double a (float.__repr__): the shortest  *)
(* decimal that reads back as a, as <<d, p>> for the decimal d * 10^p, d a *)
(* natural number of at most ReprDigits digits.  "1.7976931348623157e+308" *)
(* is <<17976931348623157, 292>>.                                          *)
(***************************************************************************)

\* enough digits to tell any two doubles apart: 1 + MantDig * log10(2),
\* rounded up
ReprDigits == (MantDig * 30103) \div 100000 + 2

\* a / 10^p as a fraction <<numerator, denominator>> of naturals
Scaled(a, p) ==
  <<BMul(BShl(a.m, Max(a.e, 0)), BPow10(Max(-p, 0))),
    BMul(BPow2(Max(-a.e, 0)), BPow10(Max(p, 0)))>>

FracGeqOne(nd) == BCmp(nd[1], nd[2]) >= 0

\* 10^k <= a
GeqPow10(a, k) == FracGeqOne(Scaled(a, k))

\* the decimal exponent of a: the k with 10^k <= a < 10^(k+1), which is
\* within one of the binary exponent times log10(2)
DecExpNear(a, k) ==
  CHOOSE j \in (k - 1)..(k + 1) : GeqPow10(a, j) /\ ~GeqPow10(a, j + 1)

DecExp(a) == DecExpNear(a, ((BBitLen(a.m) + a.e - 1) * 30103) \div 100000)

\* the natural number nearest to q + r / den, ties to even, given how
\* 2 * r compares with den
BNearest(q, c) ==
  IF c > 0 \/ (c = 0 /\ BIsOdd(q)) THEN BAdd(q, <<1>>) ELSE q

BNearestQR(qr, den) == BNearest(qr[1], BCmp(BShl(qr[2], 1), den))

BNearestFrac(nd) == BNearestQR(BDivMod(nd[1], nd[2]), nd[2])

\* a rounded to n significant decimal digits; k is a's decimal exponent
ToDigits(a, n, k) == <<BNearestFrac(Scaled(a, k - n + 1)), k - n + 1>>

\* the double that the decimal dp reads back as
FromDigits(dp) ==
  FRatio(0, BMul(dp[1], BPow10(Max(dp[2], 0))), BPow10(Max(-dp[2], 0)))

MinOf(S) == CHOOSE n \in S : \A k \in S : n <= k

\* the decimal dp without trailing zeros (9.99...e22 rounds up to 10 * 10^22,
\* which prints as 1e+23); qr is d divided by ten
RECURSIVE NoTrailingZeros(_, _, _)
NoTrailingZeros(d, p, qr) ==
  IF d = <<>> \/ qr[2] # 0 THEN <<d, p>>
  ELSE NoTrailingZeros(qr[1], p + 1, BDivSmall(qr[1], 10))

Normal(dp) == NoTrailingZeros(dp[1], dp[2], BDivSmall(dp[1], 10))

ReprAt(a, k) ==
  Normal(ToDigits(a, MinOf({n \in 1..ReprDigits :
                              FromDigits(ToDigits(a, n, k)) = a}), k))

Repr(a) == ReprAt(a, DecExp(a))

\* numpy.spacing(a): the distance from a finite a to the next double away
\* from zero
FSpacing(a) ==
  IF FIsZero(a) THEN Fin(0, <<1>>, EMin)
  ELSE IF BBitLen(a.m) < MantDig THEN Fin(a.s, <<1>>, EMin)
  ELSE Fin(a.s, <<1>>, a.e)

(***************************************************************************)
(* Python's numbers.  An int is exact and unbounded: [k |-> "int"] with    *)
(* sign s and magnitude m.  A float is a double.  The exact-arithmetic     *)
(* reading of the variance formulas runs the same code over rationals      *)
(* [k |-> "rat"], n / d in lowest terms with d > 0.                        *)
(***************************************************************************)
PyInt(s, m) == [k |-> "int", s |-> IF m = <<>> THEN 0 ELSE s, m |-> m, e |-> 0]

\* the Python int with the (small) integer value i
IntLit(i) == IF i < 0 THEN PyInt(1, BFromInt(-i)) ELSE PyInt(0, BFromInt(i))

\* the integer value of a small Python int
IntVal(a) ==
  LET v == Limb(a.m, 1) + Base * Limb(a.m, 2)
  IN  IF a.s = 1 THEN -v ELSE v

RECURSIVE Gcd(_, _)
Gcd(i, j) == IF j = 0 THEN i ELSE Gcd(j, i % j)

Abs(i) == IF i < 0 THEN -i ELSE i

Rat(n, d) ==
  LET g == Gcd(Abs(n), Abs(d))
      sg == IF d < 0 THEN -1 ELSE 1
  IN  [k |-> "rat", n |-> sg * (n \div g), d |-> sg * (d \div g)]

\* float(a)
ToFloat(a) == IF a.k = "int" THEN Round(a.s, a.m, 0, FALSE) ELSE a

ToRat(a) == IF a.k = "int" THEN Rat(IntVal(a), 1) ELSE a

RatArith(op, x, y) ==
  CASE op = "+" -> Rat(x.n * y.d + y.n * x.d, x.d * y.d)
    [] op = "-" -> Rat(x.n * y.d - y.n * x.d, x.d * y.d)
    [] op = "*" -> Rat(x.n * y.n, x.d * y.d)
    [] op = "/" -> Rat(x.n * y.d, x.d * y.n)

IntAdd(a, b) ==
  IF a.s = b.s THEN PyInt(a.s, BAdd(a.m, b.m))
  ELSE IF BCmp(a.m, b.m) >= 0 THEN PyInt(a.s, BSub(a.m, b.m))
  ELSE PyInt(b.s, BSub(b.m, a.m))

IntArith(op, a, b) ==
  CASE op = "+" -> IntAdd(a, b)
    [] op = "-" -> IntAdd(a, PyInt(1 - b.s, b.m))
    [] op = "*" -> PyInt((a.s + b.s) % 2, BMul(a.m, b.m))

\* an operand of a float operation.  int / int is the correctly rounded
\* quotient of the ints themselves; elsewhere an int is converted first.
Operand(op, a, exact) ==
  IF a.k # "int" THEN (IF op = "-" THEN FNeg(a) ELSE a)
  ELSE IF exact THEN Fin(a.s, a.m, 0)
  ELSE Round(IF op = "-" THEN 1 - a.s ELSE a.s, a.m, 0, FALSE)

\* a op b for op in "+", "-", "*", "/" (true division)
PyArith(op, a, b) ==
  IF a.k = "rat" \/ b.k = "rat" THEN RatArith(op, ToRat(a), ToRat(b))
  ELSE IF a.k = "int" /\ b.k = "int" /\ op # "/" THEN IntArith(op, a, b)
  ELSE FArith(IF op = "-" THEN "+" ELSE op,
              Operand("+", a, a.k = "int" /\ b.k = "int"),
              Operand(op, b, a.k = "int" /\ b.k = "int"))

PyAdd(a, b) == PyArith("+", a, b)

PySub(a, b) == PyArith("-", a, b)

PyMul(a, b) == PyArith("*", a, b)

PyDiv(a, b) == PyArith("/", a, b)

\* a ** 2
PySquare(a) == PyArith("*", a, a)

\* 2 ** i for a Python int i: an int when i >= 0, else the float pow(2.0, i)
PyPowerOfTwo(i) ==
  IF i.s = 0 THEN PyInt(0, BPow2(IntVal(i))) ELSE FPow2(IntVal(i))

\* a == b
PyEq(a, b) ==
  IF a.k = "rat" \/ b.k = "rat" THEN ToRat(a) = ToRat(b)
  ELSE IF a.k = "int" /\ b.k = "int" THEN a = b
  ELSE ToFloat(a).k = "fin" /\ ToFloat(b).k = "fin"
       /\ FCmp(ToFloat(a), ToFloat(b)) = 0

(***************************************************************************)
(* The kernel.  pc is the execution count of the next code cell to run     *)
(* (the notebook records the cells run once each, in order, 1..15); ns is  *)
(* the kernel's namespace, shared by all cells; out[k] is what cell k      *)
(* printed or displayed (the values, before formatting).  owner[v] is the  *)
(* cell that made the current binding of v, and rd[k] the bindings cell k  *)
(* read without having made them: pairs <<name, owner>>.  shift is the     *)
(* constant the last cell adds to the observations.                        *)
(***************************************************************************)
Modules == {"sys", "np", "math"}

Names ==
  Modules \cup {"c", "f", "one_plus_small", "one_plus_smaller",
                "e_with_more_digits", "x", "n", "sample_mean", "sample_var",
                "sample_var_2"}

LastCell == 15

Cells == 1..LastCell

Unbound == [k |-> "unbound"]

Module == [k |-> "module"]

Bool(b) == [k |-> "bool", v |-> b]

Array(v) == [k |-> "array", v |-> v]

\* sys.float_info.max and .min, as the notebook's second cell displays them
FloatInfoMax == FFromDecimal(<<1,7,9,7,6,9,3,1,3,4,8,6,2,3,1,5,7>>, 292)

FloatInfoMin == FFromDecimal(<<2,2,2,5,0,7,3,8,5,8,5,0,7,2,0,1,4>>, -324)

FloatInfoEpsilon == FFromDecimal(<<2,2,2,0,4,4,6,0,4,9,2,5,0,3,1,3>>, -31)

\* math.e, as the eighth cell prints it
MathE == FFromDecimal(<<2,7,1,8,2,8,1,8,2,8,4,5,9,0,4,5>>, -15)

\* math.cos(math.pi / 2), as the tenth cell displays it
CosHalfPi == FFromDecimal(<<6,1,2,3,2,3,3,9,9,5,7,3,6,7,6,6>>, -32)

(***************************************************************************)
(* Each cell's statements in program order: the names a statement reads    *)
(* and the names it then binds.                                            *)
(***************************************************************************)
St(r, w) == [r |-> r, w |-> w]

\* n = 1000; x = np.random.rand(n,1); sample_mean = np.sum(x) / n;
\* sample_var = np.sum( (x - sample_mean)**2 ) / (n-1); two prints
Stmts13 ==
  <<St({}, {"n"}), St({"np", "n"}, {"x"}),
    St({"np", "x", "n"}, {"sample_mean"}),
    St({"np", "x", "sample_mean", "n"}, {"sample_var"}),
    St({"sample_mean"}, {}), St({"sample_var"}, {})>>

\* the second-formula cell, had it computed the mean inline
Stmts14WithOwnMean ==
  <<St({"np", "x", "n"}, {"sample_var_2"}), St({"sample_var_2"}, {})>>

\* sample_var_2 = (np.sum(x**2) - n * sample_mean**2 ) / (n-1); a print
Stmts14 ==
  <<St({"np", "x", "n", "sample_mean"}, {"sample_var_2"}),
    St({"sample_var_2"}, {})>>

\* x = x + 1e10; sample_mean = ...; sample_var = ...; sample_var_2 = ...;
\* sample_var_2; three prints
Stmts15 ==
  <<St({"x"}, {"x"}),
    St({"np", "x", "n"}, {"sample_mean"}),
    St({"np", "x", "sample_mean", "n"}, {"sample_var"}),
    St({"np", "x", "n", "sample_mean"}, {"sample_var_2"}),
    St({"sample_var_2"}, {}), St({"sample_mean"}, {}),
    St({"sample_var"}, {}), St({"sample_var_2"}, {})>>

Stmts(k) ==
  CASE k = 1 -> <<St({}, {"sys"}), St({}, {"np"}), St({}, {"math"})>>
    [] k = 2 -> <<St({"sys"}, {})>>
    [] k = 3 -> <<St({}, {"c"}), St({}, {"f"}), St({"c", "f"}, {}),
                  St({"sys"}, {})>>
    [] k = 4 -> <<St({}, {"c"}), St({}, {"f"}), St({"c", "f"}, {}),
                  St({"sys"}, {})>>
    [] k = 5 -> <<St({"np"}, {})>>
    [] k = 6 -> <<St({"np"}, {"one_plus_small"}), St({"one_plus_small"}, {}),
                  St({"one_plus_small"}, {})>>
    [] k = 7 -> <<St({"np"}, {"one_plus_smaller"}),
                  St({"one_plus_smaller"}, {}), St({"one_plus_smaller"}, {})>>
    [] k = 8 -> <<St({"math"}, {})>>
    [] k = 9 -> <<St({}, {"e_with_more_digits"}),
                  St({"e_with_more_digits"}, {}),
                  St({"e_with_more_digits", "math"}, {})>>
    [] k = 10 -> <<St({"math"}, {})>>
    [] k = 11 -> <<St({}, {"x"}), St({"x"}, {})>>
    [] k = 12 -> <<St({}, {"x"}), St({"x"}, {})>>
    [] k = 13 -> Stmts13
    [] k = 14 -> Stmts14
    [] k = 15 -> Stmts15

\* the names statements 1..i of a sequence of statements bind
Bound(ss, i) == UNION {ss[j].w : j \in 1..i}

\* the names cell k binds
Writes(k) == Bound(Stmts(k), Len(Stmts(k)))

\* the names cell k reads before any statement of it has bound them
FreeReads(k) ==
  LET ss == Stmts(k)
  IN  UNION {ss[i].r \ Bound(ss, i - 1) : i \in 1..Len(ss)}

\* Cell k runs: it needs its free names bound (else NameError), leaves the
\* bindings `binds` (a function on Writes(k)) and the output `printed`.
Run(k, binds, printed) ==
  /\ pc = k
  /\ \A v \in FreeReads(k) : ns[v].k # "unbound"
  /\ DOMAIN binds = Writes(k)
  /\ ns' = [v \in Names |-> IF v \in Writes(k) THEN binds[v] ELSE ns[v]]
  /\ out' = [out EXCEPT ![k] = printed]
  /\ owner' = [v \in Names |-> IF v \in Writes(k) THEN k ELSE owner[v]]
  /\ rd' = [rd EXCEPT ![k] = {<<v, owner[v]>> : v \in FreeReads(k)}]
  /\ pc' = k + 1

NoBinds == [v \in {} |-> Unbound]

\* import sys; import numpy as np; import math
Cell1 == Run(1, [v \in Modules |-> Module], <<>>) /\ UNCHANGED shift

\* sys.float_info
Cell2 == Run(2, NoBinds, <<FloatInfoMax, FloatInfoMin, FloatInfoEpsilon>>) /\ UNCHANGED shift

\* the definition with the leading 1 of the mantissa forgotten
DefinitionWithoutLeadingOne(c, f) ==
  PyMul(PyPowerOfTwo(PySub(c, IntLit(Bias))), f)

\* the definition with the bias off by one
DefinitionBiasOffByOne(c, f) ==
  PyMul(PyPowerOfTwo(PySub(c, IntLit(Bias + 1))), PyAdd(IntLit(1), f))

\* 2**(c-1023)*(1+f)
Definition(c, f) ==
  PyMul(PyPowerOfTwo(PySub(c, IntLit(Bias))), PyAdd(IntLit(1), f))

\* c = 2046; f = 1-2**(-52); print(2**(c-1023)*(1+f));
\* print(sys.float_info.max)
Cell3 ==
  LET c == IntLit(MaxChar)
      f == PySub(IntLit(1), PyPowerOfTwo(IntLit(-(MantDig - 1))))
  IN  Run(3, [v \in {"c", "f"} |-> IF v = "c" THEN c ELSE f],
          <<Definition(c, f), FloatInfoMax>>)
      /\ UNCHANGED shift

\* c = 1; f = 0; print(2**(c-1023)*(1+f)); sys.float_info.min
Cell4 ==
  LET c == IntLit(1)
      f == IntLit(0)
  IN  Run(4, [v \in {"c", "f"} |-> IF v = "c" THEN c ELSE f],
          <<Definition(c, f), FloatInfoMin>>)
      /\ UNCHANGED shift

\* np.spacing(1)
Cell5 == Run(5, NoBinds, <<FSpacing(ToFloat(IntLit(1)))>>) /\ UNCHANGED shift

\* one_plus_small = 1 + np.spacing(1); print(one_plus_small);
\* print(one_plus_small == 1)
Cell6 ==
  LET v == PyAdd(IntLit(1), FSpacing(ToFloat(IntLit(1))))
  IN  Run(6, [n \in {"one_plus_small"} |-> v],
          <<v, Bool(PyEq(v, IntLit(1)))>>)
      /\ UNCHANGED shift

\* one_plus_smaller = 1 + np.spacing(1)/2; print(one_plus_smaller);
\* print(one_plus_smaller == 1)
Cell7 ==
  LET v == PyAdd(IntLit(1), PyDiv(FSpacing(ToFloat(IntLit(1))), IntLit(2)))
  IN  Run(7, [n \in {"one_plus_smaller"} |-> v],
          <<v, Bool(PyEq(v, IntLit(1)))>>)
      /\ UNCHANGED shift

\* print(math.e)
Cell8 == Run(8, NoBinds, <<MathE>>) /\ UNCHANGED shift

\* the digits of the literal bound to e_with_more_digits; one stands before
\* the decimal point
EDigits ==
  <<2,7,1,8,2,8,1,8,2,8,4,5,9,0,4,5,2,3,5,3,6,0,2,8,7,4,7,1,3,5,2,6,6,
    2,4,9,7,7,5,7,2,4,7,0,9,3,6,9,9,9,5,9,5,7,4,9,6,6,9,6,7,6,2,7,7,2,
    4,0,7,6,6,3,0,3,5,3,5,4,7,5,9,4,5,7,1,3,8,2,1,7,8,5,2,5,1,6,6,4,2,
    7,4,2,7,4,6,6,3,9,1,9,3,2,0>>

\* e_with_more_digits = 2.71828...; print(e_with_more_digits);
\* print(e_with_more_digits == math.e)
Cell9 ==
  LET v == FFromDecimal(EDigits, -(Len(EDigits) - 1))
  IN  Run(9, [n \in {"e_with_more_digits"} |-> v],
          <<v, Bool(PyEq(v, MathE))>>)
      /\ UNCHANGED shift

\* math.cos(math.pi / 2)
Cell10 == Run(10, NoBinds, <<CosHalfPi>>) /\ UNCHANGED shift

\* x = 1e8 (1e9); print(x == x + 1/x)
CancellationCell(k, p) ==
  LET x == FFromDecimal(<<1>>, p)
  IN  Run(k, [n \in {"x"} |-> x],
          <<Bool(PyEq(x, PyAdd(x, PyDiv(IntLit(1), x))))>>)
      /\ UNCHANGED shift

Cell11 == CancellationCell(11, 8)

Cell12 == CancellationCell(12, 9)

(***************************************************************************)
(* The sample variance cells.  An array is a sequence of numbers; numpy    *)
(* applies an operator between an array and a scalar elementwise, and      *)
(* np.sum adds the elements of a short array from first to last.           *)
(***************************************************************************)
\* the number of observations (n in the notebook)
SampleSize == 3

RECURSIVE NpSumTo(_, _)
NpSumTo(x, i) == IF i = 1 THEN x[1] ELSE PyAdd(NpSumTo(x, i - 1), x[i])

\* np.sum(x)
NpSum(x) == NpSumTo(x, Len(x))

\* the mean with the divisor of the variance
SampleMeanOverNMinusOne(x, n) == PyDiv(NpSum(x), PySub(n, IntLit(1)))

\* np.sum(x) / n
SampleMean(x, n) == PyDiv(NpSum(x), n)

\* the first formula replaced by the one-pass formula
SampleVarOnePass(x, n, mean) ==
  PyDiv(PySub(NpSum([i \in DOMAIN x |-> PySquare(x[i])]),
              PyMul(n, PySquare(mean))),
        PySub(n, IntLit(1)))

\* np.sum( (x - sample_mean)**2 ) / (n-1)
SampleVar(x, n, mean) ==
  PyDiv(NpSum([i \in DOMAIN x |-> PySquare(PySub(x[i], mean))]),
        PySub(n, IntLit(1)))

\* the second formula with the factor n forgotten
SampleVar2WithoutN(x, n, mean) ==
  PyDiv(PySub(NpSum([i \in DOMAIN x |-> PySquare(x[i])]), PySquare(mean)),
        PySub(n, IntLit(1)))

\* (np.sum(x**2) - n * sample_mean**2 ) / (n-1)
SampleVar2(x, n, mean) ==
  PyDiv(PySub(NpSum([i \in DOMAIN x |-> PySquare(x[i])]),
              PyMul(n, PySquare(mean))),
        PySub(n, IntLit(1)))

\* n = 1000; x = np.random.rand(n,1); sample_mean = ...; sample_var = ...;
\* print(sample_mean); print(sample_var).  The draw is any array in samples.
Cell13(samples) ==
  /\ pc = 13
  /\ \E x \in samples :
    LET n == IntLit(SampleSize)
        mean == SampleMean(x, n)
        var == SampleVar(x, n, mean)
    IN  /\ Run(13,
               [v \in {"n", "x", "sample_mean", "sample_var"} |->
                  CASE v = "n" -> n
                    [] v = "x" -> Array(x)
                    [] v = "sample_mean" -> mean
                    [] v = "sample_var" -> var],
               <<mean, var>>)
        /\ UNCHANGED shift

\* sample_var_2 = ...; print(sample_var_2)
Cell14 ==
  /\ pc = 14
  /\ LET var2 == SampleVar2(ns["x"].v, ns["n"], ns["sample_mean"])
     IN  Run(14, [v \in {"sample_var_2"} |-> var2], <<var2>>)
  /\ UNCHANGED shift

\* x = x + 1e10; sample_mean = ...; sample_var = ...; sample_var_2 = ...;
\* the three prints.  The constant added is any number in constants.
Cell15(constants) ==
  /\ pc = 15
  /\ \E k \in constants :
       LET x == [i \in DOMAIN ns["x"].v |-> PyAdd(ns["x"].v[i], k)]
           n == ns["n"]
           mean == SampleMean(x, n)
           var == SampleVar(x, n, mean)
           var2 == SampleVar2(x, n, mean)
       IN  /\ Run(15,
                  [v \in {"x", "sample_mean", "sample_var", "sample_var_2"} |->
                     CASE v = "x" -> Array(x)
                       [] v = "sample_mean" -> mean
                       [] v = "sample_var" -> var
                       [] v = "sample_var_2" -> var2],
                  <<mean, var, var2>>)
           /\ shift' = k

\* the doubles np.random.rand can return are the multiples of 2^-MantDig in
\* [0, 1); these are 0, the one nearest below 1/3, 5/8 and the largest
Observations ==
  {Fin(0, <<>>, 0),
   Round(0, BDivSmall(BPow2(MantDig), 3)[1], -MantDig, FALSE),
   Round(0, <<5>>, -3, FALSE),
   Round(0, BSub(BPow2(MantDig), <<1>>), -MantDig, FALSE)}

FloatSamples == [1..SampleSize -> Observations]

\* 1e10
Literal1e10 == FFromDecimal(<<1>>, 10)

\* the exact-arithmetic reading: observations and constants are rationals
MaxObs == 2

MaxShift == 2

ExactObservations == {Rat(i, 2) : i \in 0..MaxObs}

ExactSamples == [1..SampleSize -> ExactObservations]

ExactShifts == {Rat(j, 3) : j \in (-MaxShift)..MaxShift}

Init ==
  /\ pc = 1
  /\ ns = [v \in Names |-> Unbound]
  /\ out = [k \in Cells |-> <<>>]
  /\ owner = [v \in Names |-> 0]
  /\ rd = [k \in Cells |-> {}]
  /\ shift = Unbound

Next ==
  \/ Cell1 \/ Cell2 \/ Cell3 \/ Cell4 \/ Cell5 \/ Cell6 \/ Cell7 \/ Cell8
  \/ Cell9 \/ Cell10 \/ Cell11 \/ Cell12
  \/ Cell13(FloatSamples) \/ Cell14 \/ Cell15({Literal1e10})

\* the notebook, run once from the top
Spec == Init /\ [][Next]_vars

NextExact ==
  \/ Cell1 \/ Cell2 \/ Cell3 \/ Cell4 \/ Cell5 \/ Cell6 \/ Cell7 \/ Cell8
  \/ Cell9 \/ Cell10 \/ Cell11 \/ Cell12
  \/ Cell13(ExactSamples) \/ Cell14 \/ Cell15(ExactShifts)

\* the notebook with the sample and the constant taken from the rationals
SpecExact == Init /\ [][NextExact]_vars

(***************************************************************************)
(* The definition n = 2^(c-1023) * (1+f) over the admissible pairs: the    *)
(* cell of the largest and smallest numbers, run with any characteristic   *)
(* c in 1..MaxChar and a fraction f = j / 2^(MantDig-1).                   *)
(***************************************************************************)
Characteristics == {IntLit(c) : c \in 1..MaxChar}

\* the numerators j: 0, 1, a half, and the two largest
FractionNumerators ==
  {<<>>, <<1>>, BPow2(MantDig - 2),
   BSub(BPow2(MantDig - 1), <<2>>), BSub(BPow2(MantDig - 1), <<1>>)}

Fractions == {Round(0, j, -(MantDig - 1), FALSE) : j \in FractionNumerators}

\* c = ...; f = ...; print(2**(c-1023)*(1+f)), beside sys.float_info's
\* max and min
AnyDefinition ==
  /\ pc = 3
  /\ \E c \in Characteristics, f \in Fractions :
    /\ Run(3, [v \in {"c", "f"} |-> IF v = "c" THEN c ELSE f],
           <<Definition(c, f), FloatInfoMax, FloatInfoMin>>)
    /\ UNCHANGED shift

NextDefinition == Cell1 \/ Cell2 \/ AnyDefinition

SpecDefinition == Init /\ [][NextDefinition]_vars

(***************************************************************************)
(* The claims.                                                             *)
(***************************************************************************)
\* 2^1023 * (2 - 2^-52) = (2^53 - 1) * 2^971
TwoTo1023TimesTwoMinusEps ==
  Fin(0, BSub(BPow2(MantDig), <<1>>), MaxChar - Bias - (MantDig - 1))

\* 1 - 2^-52
LargestFraction == Round(0, BSub(BPow2(MantDig - 1), <<1>>), -(MantDig - 1), FALSE)

DefinitionRan == pc = 4 /\ Len(out[3]) = 3

\* the printed text 1.7976931348623157e+308
LargestPrinted == <<BFromDigits(<<1,7,9,7,6,9,3,1,3,4,8,6,2,3,1,5,7>>), 292>>

\* the printed text 2.2250738585072014e-308
SmallestPrinted == <<BFromDigits(<<2,2,2,5,0,7,3,8,5,8,5,0,7,2,0,1,4>>), -324>>

\* C1: the definition at c = 2046, f = 1 - 2^-52 gives 2^1023 * (2 - 2^-52),
\* which is sys.float_info.max, the two printing as 1.7976931348623157e+308,
\* and no admissible pair (c, f) gives a value larger than it.
C1_LargestDouble ==
  DefinitionRan =>
    /\ out[3][1].k = "fin"
    /\ FCmp(out[3][1], TwoTo1023TimesTwoMinusEps) <= 0
    /\ (ns["c"] = IntLit(MaxChar) /\ ns["f"] = LargestFraction =>
          /\ out[3][1] = TwoTo1023TimesTwoMinusEps
          /\ out[3][1] = out[3][2]
          /\ Repr(out[3][1]) = LargestPrinted)

C1_Witness ==
  /\ DefinitionRan
  /\ ns["c"] = IntLit(MaxChar)
  /\ ns["f"] = LargestFraction
  /\ out[3][1] = FloatInfoMax

\* 2^-1022 = 2^52 * 2^-1074
TwoToMinus1022 == Fin(0, BPow2(MantDig - 1), EMin)

Tolerance == FFromDecimal(<<1>>, -5)

Within(a, ref) == FCmp(FAbs(FSub(a, ref)), Tolerance) <= 0

Shifted == pc = LastCell + 1

\* the sample is not (nearly) constant: its variance, computed before the
\* shift, exceeds the tolerance
Spread == FCmp(out[13][2], Tolerance) > 0

CarriedInto(k) == {p \in rd[k] : p[1] \notin Modules}

\* C3 as stated: apart from the imported modules, every variable a code cell
\* reads is assigned in that same cell.
C3_NoCellReadsAnothersVariable == \A k \in Cells : CarriedInto(k) = {}

\* C3 amended: the same, except for the two later sample variance cells: the
\* second-formula cell reads x, n and sample_mean, and the shift cell reads x
\* and n, as the first-formula cell bound them; the modules come from the
\* import cell.
C3_OnlyVarianceCellsShare ==
  \A k \in Cells :
    /\ \A p \in rd[k] : p[1] \in Modules => p[2] = 1
    /\ CarriedInto(k) =
         IF k = 14 /\ pc > 14
         THEN {<<"x", 13>>, <<"n", 13>>, <<"sample_mean", 13>>}
         ELSE IF k = 15 /\ pc > 15 THEN {<<"x", 13>>, <<"n", 13>>}
         ELSE {}

C3_Witness ==
  /\ Shifted
  /\ <<"x", 13>> \in rd[14]
  /\ <<"x", 13>> \in rd[15]
  /\ owner["x"] = 15

\* C4: in exact arithmetic the two formulas give the same variance, for the
\* sample as drawn and for the shifted sample.
C4_FormulasAgreeExactly ==
  pc > 14 =>
    /\ ns["sample_var"].k = "rat"
    /\ ns["sample_var"] = ns["sample_var_2"]
    /\ out[14][1] = out[13][2]

C4_Witness ==
  /\ pc = 15
  /\ ns["sample_var_2"] = ns["sample_var"]
  /\ ns["sample_var"].n > 0
  /\ ns["sample_mean"].d > 1

\* C5: in exact arithmetic, adding a constant k to every observation adds k
\* to the mean and leaves the variance (first formula) unchanged.
C5_ShiftMovesOnlyTheMean ==
  Shifted =>
    /\ shift.k = "rat"
    /\ out[15][1] = PyAdd(out[13][1], shift)
    /\ out[15][2] = out[13][2]

C5_Witness ==
  /\ Shifted
  /\ shift.n # 0
  /\ out[13][2].n > 0
  /\ out[15][1] # out[13][1]
  /\ out[15][2] = out[13][2]

=============================================================================
